---- MODULE Spec2Model ----
(***************************************************************************)
(* A model of git_toolbox.git_ops: the branch reconciliation               *)
(* (get_delete_branches), the staged deletion (delete_branches), their     *)
(* orchestration (clean_branches) and the protected-list helper            *)
(* (append_protected_branch).                                              *)
(*                                                                         *)
(* A branch name is a string.  It is modelled as the sequence of its text  *)
(* pieces, where the text "origin/" is always a piece of its own, so that  *)
(* str.replace("origin/", "") is computed on the name and not assumed.     *)
(* A Python list is a sequence; a list object that can be reached through  *)
(* two references (the module-level PROTECTED_BRANCHES, a caller's list)   *)
(* is a variable of its own, and a reference to it is the object's name.   *)
(***************************************************************************)
EXTENDS Integers, Sequences, FiniteSets, TLC

(***************************************************************************)
(* Bounds of the model.                                                    *)
(***************************************************************************)
\* longest list of local names given to get_delete_branches; most heads of a repository
MaxLocal == 3
\* longest list of remote names / most remote tracking refs of the repository
MaxRemote == 2
\* longest protected list a caller passes
MaxProtected == 1
\* longest candidate list given to delete_branches directly
MaxCandidates == 2
\* most calls of append_protected_branch in one run
MaxAppends == 2

(***************************************************************************)
(* Branch names.                                                           *)
(***************************************************************************)
main == <<"main">>
master == <<"master">>
dev == <<"dev">>
rc == <<"rc">>
gh_pages == <<"gh-pages">>
feature_x == <<"feature-x">>
old_merged == <<"old-merged">>

\* the names a repository of the model holds and a caller passes
BranchNames == {main, feature_x, old_merged}

\* Python's None where a branch name is expected ("~" cannot occur in a ref name)
None == <<"~None">>

\* the empty string
EmptyStr == <<>>

BoundedSeq(S, n) == UNION {[1..k -> S] : k \in 0..n}

\* the names in the order git lists refs (by name)
NameOrder == <<feature_x, main, old_merged>>

\* the lists git can report for a repository: sorted by name, no name twice
SortedLists(n) ==
    {SelectSeq(NameOrder, LAMBDA name : name \in S) :
        S \in {T \in SUBSET BranchNames : Cardinality(T) <= n}}

(***************************************************************************)
(* git_ops/constants.py                                                    *)
(***************************************************************************)
DefaultProtected == <<main, master, dev, rc, gh_pages>>

DEFAULT_REPO_PATH == "."

\* the directory the process runs in; a relative path resolves against it
ProcessCwd == "."

RepoPaths == {".", "/srv/repo"}

(***************************************************************************)
(* State.                                                                  *)
(***************************************************************************)
VARIABLES
    \* the repository the handle is bound to
    working_dir,            \* repo.working_dir
    heads,                  \* repo.heads: the local branches, in order
    refs,                   \* repo.remotes.origin.refs: tracking ref names
    heads0,                 \* history: the heads when the handle was given out
    \* list objects that outlive a call
    PROTECTED_BRANCHES,     \* the module-level default list
    caller_list,            \* a list object owned by the caller
    \* the call in progress
    entry,                  \* the function the caller calls
    pc,                     \* the position in it
    dry_run, force,         \* its arguments
    protected_branches,
    local_branches, remote_branches, branches_to_delete,
    i,                      \* delete_branches: index of `branch` in the for loop
    deleted_branches,
    deleted_idx,            \* history: for each append, the loop index it came from
    calls,                  \* history: the delete operations issued, in order
    ret,                    \* what the call returned or raised
    \* main
    path_is_repo,           \* whether repo_path holds a repository (.git)
    handle,                 \* whether the caller holds a git.Repo for it
    trace,                  \* history: repository opened, fetched, enumerated, ...
    proc,                   \* how main ended: returned, exit(1), or an exception
    \* append_protected_branch
    apb                     \* the last call: arguments (before), result, appends so far

vars == <<working_dir, heads, refs, heads0, PROTECTED_BRANCHES, caller_list,
          entry, pc, dry_run, force, protected_branches, local_branches,
          remote_branches, branches_to_delete, i, deleted_branches, deleted_idx,
          calls, ret, path_is_repo, handle, trace, proc, apb>>

repoVars == <<working_dir, heads, refs, heads0>>
listVars == <<PROTECTED_BRANCHES, caller_list, apb>>
argVars == <<dry_run, force, protected_branches>>
cleanVars == <<local_branches, remote_branches>>
loopVars == <<i, deleted_branches, deleted_idx, calls>>
mainVars == <<path_is_repo, handle, proc>>

Unset == [kind |-> "unset", val |-> <<>>]
ReturnNone == [kind |-> "None", val |-> <<>>]
ReturnList(l) == [kind |-> "list", val |-> l]
Raise(exc) == [kind |-> exc, val |-> <<>>]

\* main has not ended / returned / called exit(code) / let exception exc out
Running == [kind |-> "running", code |-> 0, exc |-> ""]
MainReturned == [kind |-> "returned", code |-> 0, exc |-> ""]
Exit(code) == [kind |-> "exit", code |-> code, exc |-> ""]
Uncaught(exc) == [kind |-> "raised", code |-> 1, exc |-> exc]

\* trace entries: a step that was carried out, or one that raised
Step(name, ok) == IF ok THEN name ELSE name \o " failed"

\* where clean_branches returns to: main (line 247) or the caller of the model
AfterCleanBranches == IF entry = "main" THEN "main_return" ELSE "done"

\* Python's `x in list`
In(x, list) == \E k \in 1..Len(list) : list[k] = x

(***************************************************************************)
(* get_remote_branches: ref.name.replace("origin/", "") for each ref.      *)
(* str.replace removes every occurrence of the text.                       *)
(***************************************************************************)
str_replace_origin(name) == SelectSeq(name, LAMBDA piece : piece # "origin/")

get_remote_branches(r) == [k \in 1..Len(r) |-> str_replace_origin(r[k])]

\* the tracking ref of branch `name` on the remote origin
TrackingRef(name) == <<"origin/">> \o name

(***************************************************************************)
(* get_delete_branches: the list comprehension.                            *)
(***************************************************************************)
get_delete_branches_no_protected(local, remote, protected) ==
    SelectSeq(local, LAMBDA branch : ~In(branch, remote))

get_delete_branches_dedup(local, remote, protected) ==
    LET keep(k) == /\ ~In(local[k], remote)
                   /\ ~In(local[k], protected)
                   /\ \A m \in 1..(k - 1) : local[m] # local[k]
        F[k \in 0..Len(local)] ==
            IF k = 0 THEN <<>>
            ELSE IF keep(k) THEN Append(F[k - 1], local[k]) ELSE F[k - 1]
    IN  F[Len(local)]

get_delete_branches(local, remote, protected) ==
    SelectSeq(local,
              LAMBDA branch : ~In(branch, remote) /\ ~In(branch, protected))

(***************************************************************************)
(* The repository behind the handle.  `git branch -d/-D <name>` fails when *)
(* the repository has no such branch, and may fail for a branch it has     *)
(* (unmerged commits, the checked-out branch, a lock): the outcome for an  *)
(* existing branch is the environment's choice.                            *)
(***************************************************************************)
HandleOutcomes(branch) == IF In(branch, heads) THEN {TRUE, FALSE} ELSE {FALSE}

\* the heads once `branch` has been deleted
without(hs, branch) == SelectSeq(hs, LAMBDA h : h # branch)

\* subprocess.run(["git", "branch", "-D", branch], check=True): no cwd is
\* given, so git runs in the directory of the process
SubprocessDir == ProcessCwd

\* "ok": exit status 0; "CalledProcessError": non-zero exit status;
\* "Exception": the process could not be run (no git executable on PATH)
SubprocessOutcomes(branch) ==
    IF SubprocessDir = working_dir
    THEN (IF In(branch, heads) THEN {"ok"} ELSE {}) \cup {"CalledProcessError", "Exception"}
    ELSE {"ok", "CalledProcessError", "Exception"}

Call(stage, dir, ok) ==
    [stage |-> stage, branch |-> branches_to_delete[i], idx |-> i, dir |-> dir, ok |-> ok]

(***************************************************************************)
(* What the caller passes.                                                 *)
(***************************************************************************)
NoCall == [count |-> 0, arg |-> "None", S |-> <<>>, n |-> None, result |-> <<>>,
           module_before |-> <<>>, caller_before |-> <<>>]

\* the protected lists a caller passes; the default is the module-level list
ProtectedArgs == BoundedSeq(BranchNames, MaxProtected) \cup {PROTECTED_BRANCHES}

\* the candidate lists a caller passes to delete_branches
CandidateArgs == BoundedSeq(BranchNames, MaxCandidates)

RemoteRefs ==
    {[k \in 1..Len(s) |-> TrackingRef(s[k])] : s \in SortedLists(MaxRemote)}

(***************************************************************************)
(* delete_branches                                                         *)
(***************************************************************************)
\* line 162, negated: the branch is left alone
skip_none(branch, protected) == FALSE

skip_protected(branch, protected) == In(branch, protected)

\* the success is not recorded
append_deleted_lost(list, branch) == list

\* deleted_branches.append(branch)
append_deleted(list, branch) == Append(list, branch)

\* the end of the loop body (the try block ran through): the next branch
NextBranch ==
    /\ i' = i + 1
    /\ pc' = "loop"

\* `break`: the handler of a failure ends the loop
Continue_break ==
    /\ i' = Len(branches_to_delete) + 1
    /\ pc' = "loop"

\* line 217: `continue` at the end of the handler of a failed soft delete
Continue ==
    /\ i' = i + 1
    /\ pc' = "loop"

\* line 175: the retry with -D
retry_always(f) == TRUE

retry_if_force(f) == f

\* the caller calls delete_branches(repo, branches_to_delete, force, protected_branches)
CallDeleteBranches ==
    /\ pc = "idle"
    /\ UNCHANGED trace
    /\ entry = "delete_branches"
    /\ \E cands \in CandidateArgs, f \in BOOLEAN, prot \in ProtectedArgs :
           /\ branches_to_delete' = cands
           /\ force' = f
           /\ protected_branches' = prot
    /\ i' = 1
    /\ deleted_branches' = <<>>
    /\ deleted_idx' = <<>>
    /\ pc' = "loop"
    /\ UNCHANGED <<repoVars, listVars, mainVars, entry, dry_run, cleanVars, calls, ret>>

\* lines 160-162: a protected branch is passed over
SkipProtected ==
    /\ pc = "loop"
    /\ UNCHANGED trace
    /\ i <= Len(branches_to_delete)
    /\ skip_protected(branches_to_delete[i], protected_branches)
    /\ NextBranch
    /\ UNCHANGED <<repoVars, listVars, mainVars, entry, argVars, cleanVars,
                   branches_to_delete, deleted_branches, deleted_idx, calls, ret>>

\* lines 163-175, 213-217: repo.git.branch("-d", branch)
SoftDelete(ok) ==
    /\ pc = "loop"
    /\ UNCHANGED trace
    /\ i <= Len(branches_to_delete)
    /\ ~skip_protected(branches_to_delete[i], protected_branches)
    /\ ok \in HandleOutcomes(branches_to_delete[i])
    /\ calls' = Append(calls, Call("soft", working_dir, ok))
    /\ IF ok
       THEN /\ heads' = without(heads, branches_to_delete[i])
            /\ deleted_branches' = append_deleted(deleted_branches, branches_to_delete[i])
            /\ deleted_idx' = Append(deleted_idx, i)
            /\ NextBranch
       ELSE /\ UNCHANGED <<heads, deleted_branches, deleted_idx>>
            /\ IF retry_if_force(force)
               THEN pc' = "forced" /\ i' = i
               ELSE Continue
    /\ UNCHANGED <<working_dir, refs, heads0, listVars, mainVars, entry, argVars, cleanVars,
                   branches_to_delete, ret>>

\* a forced delete that succeeded is followed by the subprocess all the same
ForcedDelete_falls_through(ok) ==
    /\ pc = "forced"
    /\ UNCHANGED trace
    /\ ok \in HandleOutcomes(branches_to_delete[i])
    /\ calls' = Append(calls, Call("forced", working_dir, ok))
    /\ IF ok
       THEN /\ heads' = without(heads, branches_to_delete[i])
            /\ deleted_branches' = append_deleted(deleted_branches, branches_to_delete[i])
            /\ deleted_idx' = Append(deleted_idx, i)
       ELSE UNCHANGED <<heads, deleted_branches, deleted_idx>>
    /\ pc' = "subprocess"
    /\ i' = i
    /\ UNCHANGED <<working_dir, refs, heads0, listVars, mainVars, entry, argVars, cleanVars,
                   branches_to_delete, ret>>

\* lines 179-191: repo.git.branch("-D", branch)
ForcedDelete(ok) ==
    /\ pc = "forced"
    /\ UNCHANGED trace
    /\ ok \in HandleOutcomes(branches_to_delete[i])
    /\ calls' = Append(calls, Call("forced", working_dir, ok))
    /\ IF ok
       THEN /\ heads' = without(heads, branches_to_delete[i])
            /\ deleted_branches' = append_deleted(deleted_branches, branches_to_delete[i])
            /\ deleted_idx' = Append(deleted_idx, i)
            /\ Continue
       ELSE /\ UNCHANGED <<heads, deleted_branches, deleted_idx>>
            /\ pc' = "subprocess"
            /\ i' = i
    /\ UNCHANGED <<working_dir, refs, heads0, listVars, mainVars, entry, argVars, cleanVars,
                   branches_to_delete, ret>>

\* a failed subprocess is run again
SubprocessDelete_retry(outcome) ==
    /\ pc = "subprocess"
    /\ UNCHANGED trace
    /\ outcome \in SubprocessOutcomes(branches_to_delete[i])
    /\ calls' = Append(calls, Call("subprocess", SubprocessDir, outcome = "ok"))
    /\ IF outcome = "ok"
       THEN /\ heads' = IF SubprocessDir = working_dir
                        THEN without(heads, branches_to_delete[i])
                        ELSE heads
            /\ deleted_branches' = append_deleted(deleted_branches, branches_to_delete[i])
            /\ deleted_idx' = Append(deleted_idx, i)
            /\ Continue
       ELSE /\ UNCHANGED <<heads, deleted_branches, deleted_idx>>
            /\ pc' = "subprocess"
            /\ i' = i
    /\ UNCHANGED <<working_dir, refs, heads0, listVars, mainVars, entry, argVars, cleanVars,
                   branches_to_delete, ret>>

\* lines 193-211, 217: subprocess.run(["git", "branch", "-D", branch], check=True)
SubprocessDelete(outcome) ==
    /\ pc = "subprocess"
    /\ UNCHANGED trace
    /\ outcome \in SubprocessOutcomes(branches_to_delete[i])
    /\ calls' = Append(calls, Call("subprocess", SubprocessDir, outcome = "ok"))
    /\ IF outcome = "ok"
       THEN /\ heads' = IF SubprocessDir = working_dir
                        THEN without(heads, branches_to_delete[i])
                        ELSE heads
            /\ deleted_branches' = append_deleted(deleted_branches, branches_to_delete[i])
            /\ deleted_idx' = Append(deleted_idx, i)
       ELSE UNCHANGED <<heads, deleted_branches, deleted_idx>>
    /\ Continue
    /\ UNCHANGED <<working_dir, refs, heads0, listVars, mainVars, entry, argVars, cleanVars,
                   branches_to_delete, ret>>

\* line 219 (and 289: clean_branches returns what delete_branches returned)
DeleteReturn ==
    /\ pc = "loop"
    /\ UNCHANGED trace
    /\ i > Len(branches_to_delete)
    /\ ret' = ReturnList(deleted_branches)
    /\ pc' = AfterCleanBranches
    /\ UNCHANGED <<repoVars, listVars, mainVars, entry, argVars, cleanVars,
                   branches_to_delete, loopVars>>

(***************************************************************************)
(* clean_branches                                                          *)
(***************************************************************************)
\* the caller calls clean_branches(repo, dry_run, force, protected_branches)
CallCleanBranches ==
    /\ pc = "idle"
    /\ UNCHANGED trace
    /\ entry = "clean_branches"
    /\ \E d \in BOOLEAN, f \in BOOLEAN, prot \in ProtectedArgs :
           /\ dry_run' = d
           /\ force' = f
           /\ protected_branches' = prot
    /\ pc' = "get_local"
    /\ UNCHANGED <<repoVars, listVars, mainVars, entry, cleanVars, branches_to_delete, loopVars, ret>>

GetLocalBranches_returns_empty ==
    /\ pc = "get_local"
    /\ trace' = Append(trace, "get_local_branches")
    /\ local_branches' = heads
    /\ pc' = "get_remote"
    /\ UNCHANGED <<repoVars, listVars, mainVars, entry, argVars, remote_branches,
                   branches_to_delete, loopVars, ret>>

\* lines 243 and 64-74: get_local_branches
GetLocalBranches ==
    /\ pc = "get_local"
    /\ trace' = Append(trace, Step("get_local_branches", Len(heads) > 0))
    /\ IF Len(heads) = 0
       THEN /\ ret' = Raise("InvalidGitRepositoryError")
            /\ pc' = AfterCleanBranches
            /\ UNCHANGED local_branches
       ELSE /\ local_branches' = heads
            /\ pc' = "get_remote"
            /\ UNCHANGED ret
    /\ UNCHANGED <<repoVars, listVars, mainVars, entry, argVars, remote_branches,
                   branches_to_delete, loopVars>>

\* lines 251 and 88-92: get_remote_branches
GetRemoteBranches ==
    /\ pc = "get_remote"
    /\ trace' = Append(trace, "get_remote_branches")
    /\ remote_branches' = get_remote_branches(refs)
    /\ pc' = "get_delete"
    /\ UNCHANGED <<repoVars, listVars, mainVars, entry, argVars, local_branches,
                   branches_to_delete, loopVars, ret>>

\* lines 259-263 and 129-135: get_delete_branches
GetDeleteBranches ==
    /\ pc = "get_delete"
    /\ trace' = Append(trace, "get_delete_branches")
    /\ branches_to_delete' =
           get_delete_branches(local_branches, remote_branches, protected_branches)
    /\ pc' = "dry_run"
    /\ UNCHANGED <<repoVars, listVars, mainVars, entry, argVars, cleanVars, loopVars, ret>>

\* lines 271-287 with the check of dry_run left out
DryRunCheck_ignored ==
    /\ pc = "dry_run"
    /\ UNCHANGED trace
    /\ i' = 1
    /\ deleted_branches' = <<>>
    /\ deleted_idx' = <<>>
    /\ pc' = "loop"
    /\ UNCHANGED <<repoVars, listVars, mainVars, entry, argVars, cleanVars,
                   branches_to_delete, calls, ret>>

\* lines 271-287: return (None) on a dry run, else enter delete_branches
DryRunCheck ==
    /\ pc = "dry_run"
    /\ UNCHANGED trace
    /\ IF dry_run
       THEN /\ ret' = ReturnNone
            /\ pc' = AfterCleanBranches
            /\ UNCHANGED <<i, deleted_branches, deleted_idx>>
       ELSE /\ i' = 1
            /\ deleted_branches' = <<>>
            /\ deleted_idx' = <<>>
            /\ pc' = "loop"
            /\ UNCHANGED ret
    /\ UNCHANGED <<repoVars, listVars, mainVars, entry, argVars, cleanVars,
                   branches_to_delete, calls>>

(***************************************************************************)
(* The specification of one call of clean_branches or delete_branches on a *)
(* repository handle.                                                      *)
(***************************************************************************)
\* ------------------------------------------------------------------
\* main(repo_path, dry_run, force, protected_branches)           main.py
\* ------------------------------------------------------------------

\* the steps of one run, in the order the code takes them
RunOrder ==
    <<"git.Repo", "fetch --prune", "get_local_branches", "get_remote_branches",
      "get_delete_branches", "get_local_branches">>

\* main.py lines 216-221: the call; the protected list is the default one,
\* possibly extended by the caller (lines 263-279)
CallMain ==
    /\ pc = "idle"
    /\ entry = "main"
    /\ \E d \in BOOLEAN, f \in BOOLEAN, prot \in ProtectedArgs :
           /\ dry_run' = d
           /\ force' = f
           /\ protected_branches' = prot
    /\ pc' = "open"
    /\ UNCHANGED <<repoVars, listVars, mainVars, trace, entry, cleanVars,
                   branches_to_delete, loopVars, ret>>

\* get_repo_obj lines 309-317, and main lines 239-245 for its error: a path
\* without repository metadata gives InvalidGitRepositoryError, which main
\* answers with exit(1)
OpenRepo_no_fetch ==
    /\ pc = "open"
    /\ trace' = Append(trace, Step("git.Repo", path_is_repo))
    /\ IF path_is_repo
       THEN /\ pc' = "get_local"
            /\ handle' = TRUE
            /\ UNCHANGED proc
       ELSE /\ proc' = Exit(1)
            /\ pc' = "done"
            /\ UNCHANGED handle
    /\ UNCHANGED <<repoVars, listVars, path_is_repo, entry, argVars, cleanVars,
                   branches_to_delete, loopVars, ret>>

OpenRepo ==
    /\ pc = "open"
    /\ trace' = Append(trace, Step("git.Repo", path_is_repo))
    /\ IF path_is_repo
       THEN /\ pc' = "fetch"
            /\ UNCHANGED proc
       ELSE /\ proc' = Exit(1)
            /\ pc' = "done"
    /\ UNCHANGED <<repoVars, listVars, path_is_repo, handle, entry, argVars,
                   cleanVars, branches_to_delete, loopVars, ret>>

\* get_repo_obj lines 326-337: repo.git.fetch("--prune") brings the tracking
\* refs up to date with the remote and the handle is returned; a failure is
\* logged and raised again, and main (line 241) does not catch it
FetchPrune_swallowed(ok) ==
    /\ pc = "fetch"
    /\ trace' = Append(trace, Step("fetch --prune", ok))
    /\ refs' \in IF ok THEN RemoteRefs ELSE {refs}
    /\ handle' = TRUE
    /\ pc' = "get_local"
    /\ UNCHANGED <<working_dir, heads, heads0, listVars, path_is_repo, proc, entry,
                   argVars, cleanVars, branches_to_delete, loopVars, ret>>

FetchPrune(ok) ==
    /\ pc = "fetch"
    /\ trace' = Append(trace, Step("fetch --prune", ok))
    /\ IF ok
       THEN /\ refs' \in RemoteRefs
            /\ handle' = TRUE
            /\ pc' = "get_local"
            /\ UNCHANGED proc
       ELSE /\ proc' = Uncaught("GitCommandError")
            /\ pc' = "done"
            /\ UNCHANGED <<refs, handle>>
    /\ UNCHANGED <<working_dir, heads, heads0, listVars, path_is_repo, entry,
                   argVars, cleanVars, branches_to_delete, loopVars, ret>>

\* main lines 247-260: an exception of clean_branches leaves main; a non-empty
\* result makes main list the local branches once more (which raises when none
\* is left); then the result is returned
MainReturn ==
    /\ pc = "main_return"
    /\ IF ret.kind \notin {"None", "list"}
       THEN /\ proc' = Uncaught(ret.kind)
            /\ UNCHANGED trace
       ELSE IF ret.kind = "list" /\ Len(ret.val) > 0
       THEN /\ trace' = Append(trace, Step("get_local_branches", Len(heads) > 0))
            /\ proc' = IF Len(heads) = 0
                       THEN Uncaught("InvalidGitRepositoryError")
                       ELSE MainReturned
       ELSE /\ proc' = MainReturned
            /\ UNCHANGED trace
    /\ pc' = "done"
    /\ UNCHANGED <<repoVars, listVars, path_is_repo, handle, entry, argVars,
                   cleanVars, branches_to_delete, loopVars, ret>>

Init ==
    /\ working_dir \in RepoPaths
    /\ entry \in {"clean_branches", "delete_branches", "main"}
    \* delete_branches never reads the tracking refs, and main reads them
    \* only after its fetch
    /\ refs \in IF entry = "clean_branches" THEN RemoteRefs ELSE {<<>>}
    \* clean_branches and delete_branches are handed an open repository
    /\ path_is_repo \in IF entry = "main" THEN BOOLEAN ELSE {TRUE}
    /\ heads \in IF path_is_repo THEN SortedLists(MaxLocal) ELSE {<<>>}
    /\ heads0 = heads
    /\ PROTECTED_BRANCHES = DefaultProtected
    /\ caller_list = <<>>
    /\ apb = NoCall
    /\ pc = "idle"
    /\ dry_run = FALSE
    /\ force = FALSE
    /\ protected_branches = PROTECTED_BRANCHES
    /\ local_branches = <<>>
    /\ remote_branches = <<>>
    /\ branches_to_delete = <<>>
    /\ i = 0
    /\ deleted_branches = <<>>
    /\ deleted_idx = <<>>
    /\ calls = <<>>
    /\ ret = Unset
    /\ handle = (entry # "main")
    /\ trace = <<>>
    /\ proc = Running

Next ==
    \/ CallMain
    \/ OpenRepo
    \/ \E ok \in BOOLEAN : FetchPrune(ok)
    \/ MainReturn
    \/ CallCleanBranches
    \/ CallDeleteBranches
    \/ GetLocalBranches
    \/ GetRemoteBranches
    \/ GetDeleteBranches
    \/ DryRunCheck
    \/ SkipProtected
    \/ \E ok \in BOOLEAN : SoftDelete(ok)
    \/ \E ok \in BOOLEAN : ForcedDelete(ok)
    \/ \E outcome \in {"ok", "CalledProcessError", "Exception"} : SubprocessDelete(outcome)
    \/ DeleteReturn

Spec == Init /\ [][Next]_vars

(***************************************************************************)
(* clean_branches on a repository one of whose branches has "origin/" in   *)
(* its name: the branch fix/origin/login, tracked as                       *)
(* origin/fix/origin/login.                                                *)
(***************************************************************************)
fix_origin_login == <<"fix/", "origin/", "login">>

NamesWithOrigin == BranchNames \cup {fix_origin_login}

NameOrderWithOrigin == <<feature_x, fix_origin_login, main, old_merged>>

SortedListsWithOrigin(n) ==
    {SelectSeq(NameOrderWithOrigin, LAMBDA name : name \in S) :
        S \in {T \in SUBSET NamesWithOrigin : Cardinality(T) <= n}}

InitRefs ==
    /\ working_dir = DEFAULT_REPO_PATH
    /\ heads \in SortedListsWithOrigin(MaxLocal)
    /\ entry = "clean_branches"
    /\ refs \in {[k \in 1..Len(s) |-> TrackingRef(s[k])] : s \in SortedListsWithOrigin(MaxRemote)}
    /\ heads0 = heads
    /\ PROTECTED_BRANCHES = DefaultProtected
    /\ caller_list = <<>>
    /\ apb = NoCall
    /\ pc = "idle"
    /\ dry_run = FALSE
    /\ force = FALSE
    /\ protected_branches = PROTECTED_BRANCHES
    /\ local_branches = <<>>
    /\ remote_branches = <<>>
    /\ branches_to_delete = <<>>
    /\ i = 0
    /\ deleted_branches = <<>>
    /\ deleted_idx = <<>>
    /\ calls = <<>>
    /\ ret = Unset
    /\ path_is_repo = TRUE
    /\ handle = TRUE
    /\ trace = <<>>
    /\ proc = Running

NextRefs ==
    \/ CallCleanBranches
    \/ GetLocalBranches
    \/ GetRemoteBranches
    \/ GetDeleteBranches
    \/ DryRunCheck
    \* the candidates of clean_branches hold no protected name: nothing to pass over
    \/ \E ok \in BOOLEAN : SoftDelete(ok)
    \/ \E ok \in BOOLEAN : ForcedDelete(ok)
    \/ \E outcome \in {"ok", "CalledProcessError", "Exception"} : SubprocessDelete(outcome)
    \/ DeleteReturn

SpecRefs == InitRefs /\ [][NextRefs]_vars

(***************************************************************************)
(* get_delete_branches called on its own, with both lists supplied (the    *)
(* only way this repository calls it): lines 129-135.                      *)
(***************************************************************************)
CallGetDeleteBranches ==
    /\ pc = "idle"
    /\ UNCHANGED trace
    /\ entry = "get_delete_branches"
    /\ branches_to_delete' =
           get_delete_branches(local_branches, remote_branches, protected_branches)
    /\ ret' = ReturnList(branches_to_delete')
    /\ pc' = "done"
    /\ UNCHANGED <<repoVars, listVars, mainVars, entry, argVars, cleanVars, loopVars>>

InitGDB ==
    /\ working_dir = DEFAULT_REPO_PATH
    /\ heads = <<>>
    /\ refs = <<>>
    /\ heads0 = heads
    /\ PROTECTED_BRANCHES = DefaultProtected
    /\ caller_list = <<>>
    /\ apb = NoCall
    /\ entry = "get_delete_branches"
    /\ pc = "idle"
    /\ dry_run = FALSE
    /\ force = FALSE
    /\ local_branches \in BoundedSeq(BranchNames, MaxLocal)
    /\ remote_branches \in BoundedSeq(BranchNames, MaxRemote)
    /\ protected_branches \in BoundedSeq(BranchNames, MaxProtected)
    /\ branches_to_delete = <<>>
    /\ i = 0
    /\ deleted_branches = <<>>
    /\ deleted_idx = <<>>
    /\ calls = <<>>
    /\ ret = Unset
    /\ path_is_repo = TRUE
    /\ handle = TRUE
    /\ trace = <<>>
    /\ proc = Running

NextGDB == CallGetDeleteBranches

SpecGDB == InitGDB /\ [][NextGDB]_vars

(***************************************************************************)
(* append_protected_branch(protected_branches, append_branch): lines       *)
(* 27-38.  `arg` is the list object the caller passes: "default" (no       *)
(* argument: the module-level PROTECTED_BRANCHES), "caller" (the caller's  *)
(* own list) or "None".  list.append changes the object it is called on,   *)
(* and the function returns that same object.                              *)
(***************************************************************************)
ListObject(arg) ==
    CASE arg = "default" -> PROTECTED_BRANCHES
      [] arg = "caller" -> caller_list
      [] OTHER -> <<>>

AppendProtectedBranch ==
    /\ pc = "idle"
    /\ entry = "append_protected_branch"
    /\ apb.count < MaxAppends
    /\ \E arg \in {"default", "caller", "None"},
          append_branch \in BranchNames \cup {None, EmptyStr} :
           LET S == ListObject(arg)
               result == IF append_branch = None THEN S ELSE Append(S, append_branch)
           IN  /\ PROTECTED_BRANCHES' = IF arg = "default" THEN result ELSE PROTECTED_BRANCHES
               /\ caller_list' = IF arg = "caller" THEN result ELSE caller_list
               /\ apb' = [count |-> apb.count + 1, arg |-> arg, S |-> S,
                          n |-> append_branch, result |-> result,
                          module_before |-> PROTECTED_BRANCHES,
                          caller_before |-> caller_list]
    /\ UNCHANGED <<repoVars, mainVars, trace, entry, pc, argVars, cleanVars,
                   branches_to_delete, loopVars, ret>>

InitAPB ==
    /\ working_dir = DEFAULT_REPO_PATH
    /\ heads = <<>>
    /\ refs = <<>>
    /\ heads0 = heads
    /\ PROTECTED_BRANCHES = DefaultProtected
    /\ caller_list \in BoundedSeq(BranchNames, MaxProtected)
    /\ apb = NoCall
    /\ entry = "append_protected_branch"
    /\ pc = "idle"
    /\ dry_run = FALSE
    /\ force = FALSE
    /\ protected_branches = PROTECTED_BRANCHES
    /\ local_branches = <<>>
    /\ remote_branches = <<>>
    /\ branches_to_delete = <<>>
    /\ i = 0
    /\ deleted_branches = <<>>
    /\ deleted_idx = <<>>
    /\ calls = <<>>
    /\ ret = Unset
    /\ path_is_repo = TRUE
    /\ handle = TRUE
    /\ trace = <<>>
    /\ proc = Running

NextAPB == AppendProtectedBranch

SpecAPB == InitAPB /\ [][NextAPB]_vars

(***************************************************************************)
(* Properties of get_delete_branches (checked under SpecGDB).              *)
(***************************************************************************)
\* C1: the result of get_delete_branches(L, R, P) holds only names of L, no
\* name of R and no name of P; a name in L and in P is never a candidate,
\* also when R lacks it.
C1_CandidatesInLocalNotRemoteNotProtected ==
    pc = "done" =>
        \A k \in 1..Len(ret.val) :
            /\ In(ret.val[k], local_branches)
            /\ ~In(ret.val[k], remote_branches)
            /\ ~In(ret.val[k], protected_branches)

\* a local name that is protected and absent from the remote, next to a candidate
C1_Witness ==
    /\ pc = "done"
    /\ entry = "get_delete_branches"
    /\ Len(ret.val) > 0
    /\ \E k \in 1..Len(local_branches) :
           /\ In(local_branches[k], protected_branches)
           /\ ~In(local_branches[k], remote_branches)

\* the positions of L whose name is in neither R nor P
EligibleIdx ==
    {k \in 1..Len(local_branches) :
        ~In(local_branches[k], remote_branches) /\ ~In(local_branches[k], protected_branches)}

\* the j-th of them, counted from the start of L
KthEligible(j) ==
    CHOOSE k \in EligibleIdx : Cardinality({m \in EligibleIdx : m <= k}) = j

\* C9: get_delete_branches(L, R, P) is L filtered by (not in R and not in P):
\* one entry for each eligible position of L, in the order of L; and for
\* L = [main, feature-x, old-merged], R = [main], P = [main] it is
\* [feature-x, old-merged].
C9_CandidatesAreOrderedFilterOfLocal ==
    pc = "done" =>
        /\ Len(ret.val) = Cardinality(EligibleIdx)
        /\ \A j \in 1..Len(ret.val) : ret.val[j] = local_branches[KthEligible(j)]
        /\ (/\ local_branches = <<main, feature_x, old_merged>>
            /\ remote_branches = <<main>>
            /\ protected_branches = <<main>>)
           => ret.val = <<feature_x, old_merged>>

\* a list with a repeated eligible name, an ineligible name between
C9_Witness ==
    /\ pc = "done"
    /\ entry = "get_delete_branches"
    /\ local_branches = <<feature_x, main, feature_x>>
    /\ remote_branches = <<main>>
    /\ protected_branches = <<>>
    /\ ret.val = <<feature_x, feature_x>>

(***************************************************************************)
(* Properties of append_protected_branch (checked under SpecAPB).          *)
(***************************************************************************)
\* C10: append_protected_branch(S, n) returns S when n is empty or absent and
\* S with n appended otherwise, and leaves the list the caller passed and the
\* module-level default list (main, master, dev, rc, gh-pages) as they were.
C10_AppendProtectedBranchIsPure ==
    apb.count > 0 =>
        /\ apb.result = IF apb.n \in {None, EmptyStr} THEN apb.S ELSE Append(apb.S, apb.n)
        /\ caller_list = apb.caller_before
        /\ PROTECTED_BRANCHES = apb.module_before
        /\ PROTECTED_BRANCHES = DefaultProtected

(***************************************************************************)
(* Properties of a call of clean_branches or delete_branches (checked      *)
(* under Spec).                                                            *)
(***************************************************************************)
Candidates == 1..Len(branches_to_delete)

\* the delete operations issued for the k-th candidate
CallsFor(k) == {n \in 1..Len(calls) : calls[n].idx = k}

HasCall(k, stage) == \E n \in CallsFor(k) : calls[n].stage = stage

OkCall(k, stage) == \E n \in CallsFor(k) : calls[n].stage = stage /\ calls[n].ok

FailCall(k, stage) == \E n \in CallsFor(k) : calls[n].stage = stage /\ ~calls[n].ok

\* the loop is done with the k-th candidate
Processed(k) == k < i

\* the k-th candidate was appended to deleted_branches
Recorded(k) == \E j \in 1..Len(deleted_idx) : deleted_idx[j] = k

Returned == pc = "done" /\ ret.kind = "list"

\* C2: whatever force is and however the deletes end, no delete operation of
\* any stage is issued for a name of the protected list passed to the call,
\* also when the candidate list holds that name; the name is passed over and
\* is not in the returned list.
C2_NoDeleteOfProtected ==
    /\ \A n \in 1..Len(calls) : ~In(calls[n].branch, protected_branches)
    /\ \A k \in Candidates :
           In(branches_to_delete[k], protected_branches) => CallsFor(k) = {} /\ ~Recorded(k)
    /\ \A j \in 1..Len(deleted_branches) : ~In(deleted_branches[j], protected_branches)
    /\ Returned => \A j \in 1..Len(ret.val) : ~In(ret.val[j], protected_branches)

\* delete_branches was given a protected candidate followed by one it deleted
\* through the subprocess
C2_Witness ==
    /\ Returned
    /\ entry = "delete_branches"
    /\ force
    /\ \E k \in Candidates, m \in Candidates :
           /\ k < m
           /\ In(branches_to_delete[k], protected_branches)
           /\ OkCall(m, "subprocess")

\* C3: a dry run of clean_branches returns None (not a list) once the local
\* branches are enumerated, issues no delete operation of any stage, and
\* leaves the heads of the repository as they were.
C3_DryRunDeletesNothing ==
    (entry = "clean_branches" /\ dry_run) =>
        /\ calls = <<>>
        /\ heads = heads0
        /\ deleted_branches = <<>>
        /\ pc \notin {"loop", "forced", "subprocess"}
        /\ (pc = "done" /\ Len(heads0) > 0) => ret = ReturnNone

\* a dry run with two candidates and force set has returned
C3_Witness ==
    /\ entry = "clean_branches"
    /\ dry_run
    /\ force
    /\ pc = "done"
    /\ Len(branches_to_delete) = 2
    /\ ret = ReturnNone

\* the k-th candidate's own outcomes end in a success
ChainSucceeds(k) ==
    \/ OkCall(k, "soft")
    \/ force /\ FailCall(k, "soft") /\ OkCall(k, "forced")
    \/ force /\ FailCall(k, "soft") /\ FailCall(k, "forced") /\ OkCall(k, "subprocess")

\* C4: a failed delete never keeps the later candidates from being tried:
\* every candidate that is not protected gets its soft delete, and whether it
\* is recorded as deleted follows from its own outcomes and force alone.
C4_FailureDoesNotStopTheBatch ==
    /\ \A k \in Candidates :
           (Processed(k) /\ ~In(branches_to_delete[k], protected_branches)) =>
               /\ HasCall(k, "soft")
               /\ HasCall(k, "forced") <=> (force /\ FailCall(k, "soft"))
               /\ HasCall(k, "subprocess") <=>
                      (force /\ FailCall(k, "soft") /\ FailCall(k, "forced"))
               /\ Recorded(k) <=> ChainSucceeds(k)
    /\ Returned => \A k \in Candidates : Processed(k)

\* without force, the first candidate failed and the second was deleted
C4_Witness ==
    /\ Returned
    /\ ~force
    /\ Len(branches_to_delete) = 2
    /\ FailCall(1, "soft") /\ ~Recorded(1)
    /\ OkCall(2, "soft") /\ Recorded(2)
    /\ ret.val = <<branches_to_delete[2]>>

\* the names of the candidates whose chain had a success, in candidate order
SuccessIdx == {k \in Candidates : \E n \in CallsFor(k) : calls[n].ok}

KthSuccess(j) == CHOOSE k \in SuccessIdx : Cardinality({m \in SuccessIdx : m <= k}) = j

\* C5: the returned list is the candidates whose chain ended in a success, in
\* candidate order: one entry for each such candidate, none for any other,
\* and no name from outside the candidate list.
C5_ReturnedListIsTheDeleted ==
    /\ \A k \in Candidates : Cardinality({n \in CallsFor(k) : calls[n].ok}) <= 1
    /\ \A n \in 1..Len(calls) :
           /\ calls[n].idx \in Candidates
           /\ calls[n].branch = branches_to_delete[calls[n].idx]
    /\ Returned =>
           /\ ret.val = deleted_branches
           /\ Len(ret.val) = Cardinality(SuccessIdx)
           /\ \A j \in 1..Len(ret.val) : ret.val[j] = branches_to_delete[KthSuccess(j)]

\* clean_branches returned a deleted one, after a failed one, with force
C5_Witness ==
    /\ Returned
    /\ entry = "clean_branches"
    /\ force
    /\ Len(branches_to_delete) = 3
    /\ SuccessIdx = {1, 3}
    /\ Len(ret.val) = 2

\* C6 as stated: without force a candidate whose soft delete fails gets no
\* forced delete and no subprocess delete and is not in the returned list,
\* and each candidate gets exactly one delete attempt.
C6_WithoutForceExactlyOneAttempt ==
    (Returned /\ ~force) =>
        \A k \in Candidates :
            /\ FailCall(k, "soft") =>
                   ~HasCall(k, "forced") /\ ~HasCall(k, "subprocess") /\ ~Recorded(k)
            /\ Cardinality(CallsFor(k)) = 1

\* C6, amended: without force a candidate whose soft delete fails gets no
\* further attempt and is not recorded, the loop goes on to the next
\* candidate, and each candidate that is not protected gets exactly one
\* delete attempt (a protected one gets none).
C6_WithoutForceOneAttemptUnlessProtected ==
    ~force =>
        /\ pc \notin {"forced", "subprocess"}
        /\ \A k \in Candidates :
               /\ FailCall(k, "soft") =>
                      ~HasCall(k, "forced") /\ ~HasCall(k, "subprocess") /\ ~Recorded(k)
               /\ Processed(k) =>
                      Cardinality(CallsFor(k)) =
                          IF In(branches_to_delete[k], protected_branches) THEN 0 ELSE 1
        /\ Returned => \A k \in Candidates : Processed(k)

\* delete_branches without force: after a failed candidate, another attempt
C6_Witness ==
    /\ Returned
    /\ ~force
    /\ entry = "delete_branches"
    /\ \E k \in Candidates, m \in Candidates :
           /\ k < m
           /\ FailCall(k, "soft")
           /\ HasCall(m, "soft")
    /\ Len(protected_branches) > 0

\* C7: with force, a candidate whose soft delete fails and whose forced delete
\* succeeds is recorded as deleted and gets no subprocess delete; one whose
\* soft delete succeeds gets neither a forced nor a subprocess delete.
C7_ForcedSuccessEndsTheChain ==
    force =>
        \A k \in Candidates :
            /\ (FailCall(k, "soft") /\ OkCall(k, "forced")) =>
                   /\ Recorded(k)
                   /\ In(branches_to_delete[k], deleted_branches)
                   /\ ~HasCall(k, "subprocess")
                   /\ Processed(k)
                   /\ Returned => In(branches_to_delete[k], ret.val)
            /\ OkCall(k, "soft") =>
                   /\ ~HasCall(k, "forced")
                   /\ ~HasCall(k, "subprocess")
                   /\ Processed(k)

\* with force: one candidate deleted by the forced delete, one by the soft one
C7_Witness ==
    /\ Returned
    /\ force
    /\ \E k \in Candidates, m \in Candidates :
           /\ FailCall(k, "soft") /\ OkCall(k, "forced")
           /\ OkCall(m, "soft")
           /\ Len(ret.val) = 2

\* C8: with force, a candidate whose soft and forced deletes both fail gets
\* exactly one subprocess delete: if it succeeds the candidate is recorded as
\* deleted, if it fails the candidate is not recorded, is not tried again and
\* the loop goes on.  No candidate gets more than three delete attempts.
C8_OneSubprocessAttempt ==
    /\ \A k \in Candidates : Cardinality(CallsFor(k)) <= 3
    /\ force =>
           \A k \in Candidates :
               (Processed(k) /\ FailCall(k, "soft") /\ FailCall(k, "forced")) =>
                   /\ Cardinality({n \in CallsFor(k) : calls[n].stage = "subprocess"}) = 1
                   /\ OkCall(k, "subprocess") => Recorded(k)
                   /\ FailCall(k, "subprocess") => ~Recorded(k)
    /\ (force /\ Returned) =>
           \A k \in Candidates :
               ~In(branches_to_delete[k], protected_branches) => HasCall(k, "soft")

\* with force: the subprocess failed for one candidate and deleted the next
C8_Witness ==
    /\ Returned
    /\ force
    /\ Len(branches_to_delete) = 2
    /\ FailCall(1, "subprocess") /\ ~Recorded(1)
    /\ OkCall(2, "subprocess") /\ Recorded(2)
    /\ ret.val = <<branches_to_delete[2]>>

(***************************************************************************)
(* Properties of get_remote_branches (checked under SpecRefs).             *)
(***************************************************************************)
\* clean_branches has enumerated the remote branches
RemoteEnumerated ==
    \/ pc \in {"get_delete", "dry_run", "loop", "forced", "subprocess"}
    \/ pc = "done" /\ ret.kind \in {"None", "list"}

\* clean_branches has computed the candidates
CandidatesComputed ==
    \/ pc \in {"dry_run", "loop", "forced", "subprocess"}
    \/ pc = "done" /\ ret.kind \in {"None", "list"}

\* C11: get_remote_branches strips exactly the leading "origin/" of each
\* tracking ref: for the ref origin/<n> it returns <n>, whatever <n> holds,
\* so a local branch <n> that the remote has is never a deletion candidate.
C11_RemoteNamesAreRefsWithoutPrefix ==
    /\ RemoteEnumerated =>
           /\ Len(remote_branches) = Len(refs)
           /\ \A k \in 1..Len(refs) : TrackingRef(remote_branches[k]) = refs[k]
    /\ CandidatesComputed =>
           \A k \in 1..Len(local_branches) :
               In(TrackingRef(local_branches[k]), refs) =>
                   ~In(local_branches[k], branches_to_delete)

InTrace(e) == \E n \in 1..Len(trace) : trace[n] = e

\* C12: with zero local heads get_local_branches raises its no-branches
\* error; clean_branches lets it out before the remote branches are
\* enumerated, candidates are computed or a delete is issued, whatever
\* dry_run is; with at least one local head the error is never raised.
C12_NoLocalHeadsRaisesBeforeAnythingElse ==
    (entry \in {"clean_branches", "main"} /\ path_is_repo) =>
        /\ Len(heads0) = 0 =>
               /\ ~InTrace("get_local_branches")
               /\ ~InTrace("get_remote_branches")
               /\ ~InTrace("get_delete_branches")
               /\ pc \notin {"get_remote", "get_delete", "dry_run", "loop", "forced",
                              "subprocess"}
               /\ local_branches = <<>>
               /\ remote_branches = <<>>
               /\ branches_to_delete = <<>>
               /\ calls = <<>>
               /\ heads = heads0
               /\ InTrace("get_local_branches failed") =>
                      ret = Raise("InvalidGitRepositoryError")
               /\ (pc = "done" /\ handle) => ret = Raise("InvalidGitRepositoryError")
        /\ Len(heads0) > 0 =>
               /\ ret.kind # "InvalidGitRepositoryError"
               /\ pc \notin {"idle", "open", "fetch", "get_local"} =>
                      (handle => local_branches = heads0)

C12_Witness ==
    /\ entry = "clean_branches"
    /\ Len(heads0) = 0
    /\ Len(refs) > 0
    /\ dry_run
    /\ pc = "done"
    /\ ret = Raise("InvalidGitRepositoryError")

\* C13: get_repo_obj raises the invalid-repository error for a path without
\* repository metadata, and lets the error of a failed prune-fetch out; in
\* both cases no handle is returned and main ends (with exit(1) in the first
\* case) before any branch was enumerated, any candidate computed or any
\* delete issued.
C13_NoHandleNoBranchWork ==
    entry = "main" =>
        /\ ~path_is_repo =>
               /\ ~handle
               /\ ~InTrace("git.Repo")
               /\ pc \in {"idle", "open", "done"}
               /\ pc = "done" => (InTrace("git.Repo failed") /\ proc = Exit(1))
        /\ InTrace("git.Repo failed") => (~path_is_repo /\ pc = "done")
        /\ InTrace("fetch --prune failed") =>
               /\ ~handle
               /\ pc = "done"
               /\ proc = Uncaught("GitCommandError")
        /\ ~handle =>
               /\ \A n \in 1..Len(trace) :
                      trace[n] \in {"git.Repo", "git.Repo failed", "fetch --prune failed"}
               /\ local_branches = <<>>
               /\ remote_branches = <<>>
               /\ branches_to_delete = <<>>
               /\ calls = <<>>
               /\ deleted_branches = <<>>
               /\ heads = heads0
               /\ ret = Unset
               /\ proc.kind # "returned"

C13_Witness ==
    /\ entry = "main"
    /\ pc = "done"
    /\ InTrace("fetch --prune failed")
    /\ ~handle
    /\ ~dry_run
    /\ Len(heads) > 1
    /\ proc.kind = "raised"

\* C14: the forced delete run as an external process acts on the repository
\* of the handle: it runs in that repository's working directory, for every
\* repo_path, and when it succeeds the branch is gone from that repository.
C14_SubprocessDeleteActsOnHandleRepository ==
    \A n \in 1..Len(calls) :
        calls[n].stage = "subprocess" =>
            /\ calls[n].dir = working_dir
            /\ calls[n].ok => ~In(calls[n].branch, heads)

StageRank(stage) ==
    CASE stage = "soft" -> 1
      [] stage = "forced" -> 2
      [] stage = "subprocess" -> 3

\* the steps of trace that were carried out without raising
StepsDone == SelectSeq(trace, LAMBDA e : \E n \in 1..Len(RunOrder) : e = RunOrder[n])

\* C15: in a run of main with dry_run false the prune-fetch comes before the
\* two enumerations, both come before the one computation of the candidate
\* list, that comes before every delete attempt, and the attempts go branch
\* by branch in candidate order, all attempts for one branch before the
\* first for the next.
C15_OperationsInFixedOrder ==
    (entry = "main" /\ ~dry_run) =>
        /\ StepsDone = SubSeq(RunOrder, 1, Len(StepsDone))
        /\ \A n \in 1..(Len(trace) - 1) : trace[n] = RunOrder[n]
        /\ pc \in {"loop", "forced", "subprocess"} => Len(StepsDone) = 5
        /\ calls # <<>> => Len(StepsDone) >= 5
        /\ Len(trace) > 5 => (pc = "done" /\ ret = ReturnList(deleted_branches))
        /\ Len(StepsDone) >= 5 =>
               /\ local_branches = heads0
               /\ remote_branches = get_remote_branches(refs)
               /\ branches_to_delete =
                      get_delete_branches(local_branches, remote_branches, protected_branches)
        /\ \A n \in 1..Len(calls) :
               /\ calls[n].idx \in 1..Len(branches_to_delete)
               /\ calls[n].branch = branches_to_delete[calls[n].idx]
               /\ calls[n].idx <= i
        /\ \A n \in 1..(Len(calls) - 1) :
               \/ calls[n].idx < calls[n + 1].idx
               \/ /\ calls[n].idx = calls[n + 1].idx
                  /\ StageRank(calls[n].stage) < StageRank(calls[n + 1].stage)

C15_Witness ==
    /\ entry = "main"
    /\ ~dry_run
    /\ pc = "done"
    /\ proc = MainReturned
    /\ Len(trace) = 6
    /\ Len(branches_to_delete) = 2
    /\ Len(calls) >= 4
    /\ \E n \in 1..Len(calls) : calls[n].stage = "subprocess" /\ calls[n].idx = 1
    /\ \E n \in 1..Len(calls) : calls[n].idx = 2

====
